---- MODULE Spec2Model ----
(***************************************************************************)
(* Real-time chat server: the Socket.IO handlers (join_channel,            *)
(* leave_channel, send_message, typing, kick_user_from_channel,            *)
(* disconnect) and the HTTP channel controller (createChannel,             *)
(* joinChannel, removeUserFromChannel, getChannelMessages) acting on one    *)
(* database and one in-memory room table.                                  *)
(*                                                                         *)
(* Every `await pool.query(...)` of a handler is a scheduling point: the   *)
(* query reads or writes the database in one step and the code after the   *)
(* await runs in a later step, so other handlers interleave in between.    *)
(* The code that follows the last database await of a handler runs to      *)
(* completion in one step (Node runs a continuation without preemption;    *)
(* fetchSockets() of the in-memory adapter resolves from a snapshot taken  *)
(* synchronously, and every other handler's continuation waits for         *)
(* database I/O, so none runs between the snapshot and the loop).          *)
(* A socket has at most one handler awaiting the database at a time;       *)
(* handlers of different sockets and HTTP requests run concurrently.       *)
(*                                                                         *)
(* Socket.IO itself, on the close of a socket, takes the socket out of     *)
(* every room and out of the namespace and turns its join() into a no-op;  *)
(* the 'disconnect' handler of the server only logs. A handler of a closed *)
(* socket that is still awaiting the database runs to its end: its         *)
(* socket.emit is discarded, its broadcasts reach the room as usual.       *)
(***************************************************************************)
EXTENDS Integers, Sequences, FiniteSets, Bags, TLC

\* ---------------------------------------------------------------- bounds
MaxChannels == 2    \* channel ids 1..MaxChannels may be created
MaxOps == 3         \* requests accepted from clients in one run
MaxMsgs == 2        \* rows the messages table may hold
MaxHttp == 2        \* HTTP joinChannel requests in flight at once
MaxLoads == 1       \* loadMessages requests of the browser in flight at once
MaxDeletes == 1     \* api.delete requests of the browser in flight at once
MaxTimers == 1      \* setTimeout(onBack) timers pending in the browser at once

\* ------------------------------------------------------------ the actors
Users == {1, 2}                    \* users.id
Conns == {"k0", "k1", "k2", "k3"}        \* sockets
ConnOrder == <<"k1", "k2", "k3", "k0">>  \* iteration order of a room's sockets
NoUser == 0
\* socket.userId, set once by the authentication middleware; k0 is a client
\* that holds no valid token, so the middleware never sets its userId
userOf == [k \in Conns |-> IF k = "k1" THEN 1 ELSE IF k = "k0" THEN NoUser ELSE 2]
\* socket.handshake.auth.token: "" is an absent token, "bad" one that
\* jwt.verify rejects (forged or expired), "t1" and "t2" are signed for
\* users 1 and 2
Tokens == {"", "bad", "t1", "t2"}
\* The tokens the client behind each socket can present.
tokensOf == [k \in Conns |-> IF k = "k0" THEN {"", "bad"}
                             ELSE IF k = "k1" THEN {"t1"} ELSE {"t2"}]
ChannelIds == 1..MaxChannels
NoChannel == 0
\* The content of a send_message payload; NoContent is a payload without it.
NoContent == "undefined"
Contents == {"hi", " ", NoContent}
\* parseInt(req.query.limit) || 50
DefaultLimit == 50
\* parseInt(req.query.limit) and parseInt(req.query.offset): 0 stands for an
\* absent or non-numeric parameter too (NaN || d is d, as 0 || d is).
LimitParams == {0, 1}
OffsetParams == {0, 1}

VARIABLES
  channels,   \* channels table: channel id -> creator_id
  members,    \* channel_members table: set of <<channel_id, user_id>>
  messages,   \* messages table: sequence of rows, the index is the id;
              \* `at` is created_at
  rooms,      \* adapter rooms: set of <<channel id, socket>>
  connected,  \* sockets of the namespace that are connected
  pc,         \* per socket: the handler awaiting the database, if any
  hjoin,      \* HTTP joinChannel requests between their SELECT and INSERT
  out,        \* what the last step emitted: events and HTTP responses
  evicted,    \* history: <<channel, user>> whose kick eviction ran since
              \* the membership row was last deleted
  dupRows,    \* channel_members: the <<channel_id, user_id>> that have more
              \* than one row
  nops,       \* requests accepted so far
  client      \* one browser: the state of ChatPage, ChatRoom and MemberList

vars == <<channels, members, messages, rooms, connected, pc, hjoin, out, evicted,
          dupRows, nops, client>>

\* Everything that lives on the server.
serverVars == <<channels, members, messages, rooms, connected, pc, hjoin, out, evicted,
                dupRows, nops>>

\* ---------------------------------------------------------------- helpers
Idle == [op |-> "idle", chan |-> NoChannel, found |-> FALSE, target |-> NoUser,
         creator |-> NoUser, content |-> "", msg |-> 0]

\* One emitted event: socket.emit / io.to(room).emit, or an HTTP response
\* (to = "http", user = the requester, n = the status code, rows = the
\* messages of a history response).
Ev(to, ev, chan, user, n, text) ==
  [to |-> to, ev |-> ev, chan |-> chan, user |-> user, n |-> n, text |-> text,
   rows |-> <<>>]

\* The sockets io.to(`channel_${c}`) reaches: in the room and connected.
Subscribers(rm, c) == {k \in connected : <<c, k>> \in rm}

\* Mutant: the presence count taken from the membership table.
RoomSizeFromMembers(rm, c) == Cardinality({u \in Users : <<c, u>> \in members})

\* io.sockets.adapter.rooms.get(`channel_${c}`)?.size || 0
RoomSize(rm, c) == Cardinality({k \in Conns : <<c, k>> \in rm})

\* socket.emit(...): a closed socket discards the packet.
Emit(k, ev, chan, user, n, text) ==
  IF k \in connected THEN <<Ev(k, ev, chan, user, n, text)>> ELSE <<>>

\* io.to(room).emit(...), or socket.to(room).emit(...) with except = {socket}.
Broadcast(rm, c, except, ev, user, n, text) ==
  LET to == SelectSeq(ConnOrder, LAMBDA k : k \in Subscribers(rm, c) \ except)
  IN  [i \in 1..Len(to) |-> Ev(to[i], ev, c, user, n, text)]

HttpResponse(u, c, status, text) == <<Ev("http", "response", c, u, status, text)>>

\* SELECT * FROM channel_members WHERE channel_id = $1 AND user_id = $2
isMember(c, u) == <<c, u>> \in members

\* SELECT creator_id FROM channels WHERE id = $1 (NoUser: no row)
creatorOf(c) == IF c \in DOMAIN channels THEN channels[c] ELSE NoUser

\* The channel ids requests name: every existing channel, and the first id
\* not yet assigned (an unknown channel).
RequestChannels == (DOMAIN channels \cup {Cardinality(DOMAIN channels) + 1}) \cap ChannelIds

\* The run accepts MaxOps client requests; the steps of the handlers they
\* start are not counted.
CanStart == nops < MaxOps

\* The server starts with no socket in any room, on a database in which
\* user 1 has created channel 1 (createChannel) and user 2 has joined it
\* (joinChannel); three sockets have been admitted with valid tokens and are
\* connected, one of user 1 and two of user 2.
Init ==
  /\ channels = (1 :> 1)
  /\ members = {<<1, 1>>, <<1, 2>>}
  /\ messages = <<>>
  /\ rooms = {}
  /\ connected = {k \in Conns : userOf[k] # NoUser}
  /\ pc = [k \in Conns |-> Idle]
  /\ hjoin = EmptyBag
  /\ out = <<>>
  /\ evicted = {}
  /\ dupRows = {}
  /\ nops = 0
  /\ client = [user |-> NoUser, channel |-> NoChannel, canSendMessages |-> TRUE,
               messages |-> <<>>, loads |-> {}, removeDialog |-> NoUser,
               deleting |-> {}, timers |-> 0, emitted |-> <<>>]

\* ------------------------------------------------------------ join_channel
\* socket.on('join_channel'): the membership SELECT.
JoinStart(k, c) ==
  /\ CanStart /\ k \in connected /\ pc[k].op = "idle"
  /\ pc' = [pc EXCEPT ![k] = [Idle EXCEPT !.op = "join", !.chan = c,
                                          !.found = isMember(c, userOf[k])]]
  /\ out' = <<>>
  /\ nops' = nops + 1
  /\ UNCHANGED <<channels, members, dupRows, messages, rooms, connected, hjoin, evicted>>

\* Mutant: user_joined sent with io.to(room), which reaches the joiner too.
JoinEventsEcho(rm, k, c) ==
  Broadcast(rm, c, {}, "user_joined", userOf[k], 0, "")
    \o Broadcast(rm, c, {}, "room_info", NoUser, RoomSize(rm, c), "")

\* What join_channel emits after socket.join: user_joined to the others,
\* then room_info to the whole room.
JoinEvents(rm, k, c) ==
  Broadcast(rm, c, {k}, "user_joined", userOf[k], 0, "")
    \o Broadcast(rm, c, {}, "room_info", NoUser, RoomSize(rm, c), "")

\* Mutant: the error of a failed membership check sent to every socket of
\* the user.
NotMemberEventsToUser(k, c, text) ==
  LET mine == SelectSeq(ConnOrder, LAMBDA s : s \in connected /\ userOf[s] = userOf[k])
  IN  [i \in 1..Len(mine) |-> Ev(mine[i], "error", NoChannel, NoUser, 0, text)]
        \o Emit(k, "force_leave_channel", c, NoUser, 0, "")

\* What a failed membership check of join_channel / send_message emits.
NotMemberEvents(k, c, text) ==
  Emit(k, "error", NoChannel, NoUser, 0, text)
    \o Emit(k, "force_leave_channel", c, NoUser, 0, "")

\* Mutant: join_channel without the membership gate.
JoinDoneNoGate(k) ==
  /\ pc[k].op = "join"
  /\ LET c == pc[k].chan IN
       /\ rooms' = IF k \in connected THEN rooms \cup {<<c, k>>} ELSE rooms
       /\ out' = JoinEvents(rooms', k, c)
  /\ pc' = [pc EXCEPT ![k] = Idle]
  /\ UNCHANGED <<channels, members, dupRows, messages, connected, hjoin, evicted, nops>>

\* Mutant: the presence count kept as a counter that every join increments.
JoinDoneCounting(k) ==
  /\ pc[k].op = "join"
  /\ LET c == pc[k].chan IN
       IF ~pc[k].found
       THEN /\ rooms' = rooms
            /\ out' = NotMemberEvents(k, c, "Not a member of this channel")
       ELSE /\ rooms' = IF k \in connected THEN rooms \cup {<<c, k>>} ELSE rooms
            /\ out' = Broadcast(rooms', c, {k}, "user_joined", userOf[k], 0, "")
                        \o Broadcast(rooms', c, {}, "room_info", NoUser,
                                     RoomSize(rooms, c) + 1, "")
  /\ pc' = [pc EXCEPT ![k] = Idle]
  /\ UNCHANGED <<channels, members, dupRows, messages, connected, hjoin, evicted, nops>>

\* socket.on('join_channel'): the code after the await. socket.join of a
\* socket that has closed meanwhile adds nothing to the room.
JoinDone(k) ==
  /\ pc[k].op = "join"
  /\ LET c == pc[k].chan IN
       IF ~pc[k].found
       THEN /\ rooms' = rooms
            /\ out' = NotMemberEvents(k, c, "Not a member of this channel")
       ELSE /\ rooms' = IF k \in connected THEN rooms \cup {<<c, k>>} ELSE rooms
            /\ out' = JoinEvents(rooms', k, c)
  /\ pc' = [pc EXCEPT ![k] = Idle]
  /\ UNCHANGED <<channels, members, dupRows, messages, connected, hjoin, evicted, nops>>

\* ----------------------------------------------------------- leave_channel
\* Mutant: leave_channel reporting an error to a socket that is not in the
\* room.
LeaveStrict(k, c) ==
  /\ CanStart /\ k \in connected
  /\ rooms' = rooms \ {<<c, k>>}
  /\ out' = IF <<c, k>> \in rooms
            THEN Broadcast(rooms', c, {k}, "user_left", userOf[k], 0, "")
            ELSE Emit(k, "error", NoChannel, NoUser, 0, "Not in this channel")
  /\ nops' = nops + 1
  /\ UNCHANGED <<channels, members, dupRows, messages, connected, pc, hjoin, evicted>>

\* socket.on('leave_channel'): synchronous.
Leave(k, c) ==
  /\ CanStart /\ k \in connected
  /\ rooms' = rooms \ {<<c, k>>}
  /\ out' = Broadcast(rooms', c, {k}, "user_left", userOf[k], 0, "")
  /\ nops' = nops + 1
  /\ UNCHANGED <<channels, members, dupRows, messages, connected, pc, hjoin, evicted>>

\* ------------------------------------------------------------ send_message
\* send_message handlers that have not reached their INSERT yet.
SendsInFlight == Cardinality({k \in Conns : pc[k].op = "send"})

\* Mutant: the membership check of send_message answered from the room the
\* socket joined instead of the membership table.
SendStartCached(k, c, content) ==
  /\ CanStart /\ k \in connected /\ pc[k].op = "idle"
  /\ Len(messages) + SendsInFlight < MaxMsgs
  /\ pc' = [pc EXCEPT ![k] = [Idle EXCEPT !.op = "send", !.chan = c,
                                          !.content = content,
                                          !.found = (<<c, k>> \in rooms)]]
  /\ out' = <<>>
  /\ nops' = nops + 1
  /\ UNCHANGED <<channels, members, dupRows, messages, rooms, connected, hjoin, evicted>>

\* socket.on('send_message'): the membership SELECT.
SendStart(k, c, content) ==
  /\ CanStart /\ k \in connected /\ pc[k].op = "idle"
  /\ Len(messages) + SendsInFlight < MaxMsgs
  /\ pc' = [pc EXCEPT ![k] = [Idle EXCEPT !.op = "send", !.chan = c,
                                          !.content = content,
                                          !.found = isMember(c, userOf[k])]]
  /\ out' = <<>>
  /\ nops' = nops + 1
  /\ UNCHANGED <<channels, members, dupRows, messages, rooms, connected, hjoin, evicted>>

\* Mutant: a rejected send_message unsubscribing the socket from the room.
SendRejectUnsubscribes(k) ==
  /\ pc[k].op = "send" /\ ~pc[k].found
  /\ out' = NotMemberEvents(k, pc[k].chan, "You are not a member of this channel")
  /\ rooms' = rooms \ {<<pc[k].chan, k>>}
  /\ pc' = [pc EXCEPT ![k] = Idle]
  /\ UNCHANGED <<channels, members, dupRows, messages, connected, hjoin, evicted, nops>>

\* Mutant: a rejected send_message taking the socket out of all its rooms.
SendRejectLeavesAll(k) ==
  /\ pc[k].op = "send" /\ ~pc[k].found
  /\ out' = NotMemberEvents(k, pc[k].chan, "You are not a member of this channel")
  /\ rooms' = {r \in rooms : r[2] # k}
  /\ pc' = [pc EXCEPT ![k] = Idle]
  /\ UNCHANGED <<channels, members, dupRows, messages, connected, hjoin, evicted, nops>>

\* send_message, memberCheck.rows.length === 0: error and force_leave_channel.
SendReject(k) ==
  /\ pc[k].op = "send" /\ ~pc[k].found
  /\ out' = NotMemberEvents(k, pc[k].chan, "You are not a member of this channel")
  /\ pc' = [pc EXCEPT ![k] = Idle]
  /\ UNCHANGED <<channels, members, dupRows, messages, rooms, connected, hjoin, evicted, nops>>

\* created_at DEFAULT CURRENT_TIMESTAMP of the next row: the clock has
\* advanced since the previous INSERT, or it has not (two INSERTs within one
\* tick of the clock).
Timestamps == IF messages = <<>> THEN {1}
              ELSE {messages[Len(messages)].at, messages[Len(messages)].at + 1}

\* Mutant: the author of the row taken from a field of the payload, which
\* the client fills in as it likes.
SendInsertPayloadAuthor(k) ==
  /\ pc[k].op = "send" /\ pc[k].found
  /\ IF pc[k].content = NoContent
     THEN /\ messages' = messages
          /\ pc' = [pc EXCEPT ![k] = Idle]
          /\ out' = Emit(k, "error", NoChannel, NoUser, 0, "Error sending message")
     ELSE /\ \E t \in Timestamps, u \in Users :
               messages' = Append(messages, [id |-> Len(messages) + 1, chan |-> pc[k].chan,
                                             user |-> u, content |-> pc[k].content,
                                             at |-> t])
          /\ pc' = [pc EXCEPT ![k].op = "send_saved", ![k].msg = Len(messages) + 1]
          /\ out' = <<>>
  /\ UNCHANGED <<channels, members, dupRows, rooms, connected, hjoin, evicted, nops>>

\* send_message: INSERT INTO messages ... RETURNING *. A payload without
\* content violates content TEXT NOT NULL: the catch block reports it.
SendInsert(k) ==
  /\ pc[k].op = "send" /\ pc[k].found
  /\ IF pc[k].content = NoContent
     THEN /\ messages' = messages
          /\ pc' = [pc EXCEPT ![k] = Idle]
          /\ out' = Emit(k, "error", NoChannel, NoUser, 0, "Error sending message")
     ELSE /\ \E t \in Timestamps :
               messages' = Append(messages, [id |-> Len(messages) + 1, chan |-> pc[k].chan,
                                             user |-> userOf[k], content |-> pc[k].content,
                                             at |-> t])
          /\ pc' = [pc EXCEPT ![k].op = "send_saved", ![k].msg = Len(messages) + 1]
          /\ out' = <<>>
  /\ UNCHANGED <<channels, members, dupRows, rooms, connected, hjoin, evicted, nops>>

\* Mutant: new_message sent with socket.to(room), which skips the sender.
SendBroadcastToOthers(k) ==
  /\ pc[k].op = "send_saved"
  /\ out' = Broadcast(rooms, pc[k].chan, {k}, "new_message", userOf[k],
                      pc[k].msg, pc[k].content)
  /\ pc' = [pc EXCEPT ![k] = Idle]
  /\ UNCHANGED <<channels, members, dupRows, messages, rooms, connected, hjoin, evicted, nops>>

\* send_message: after the users SELECT, io.to(room).emit('new_message').
SendBroadcast(k) ==
  /\ pc[k].op = "send_saved"
  /\ out' = Broadcast(rooms, pc[k].chan, {}, "new_message", userOf[k],
                      pc[k].msg, pc[k].content)
  /\ pc' = [pc EXCEPT ![k] = Idle]
  /\ UNCHANGED <<channels, members, dupRows, messages, rooms, connected, hjoin, evicted, nops>>

\* send_message: the users SELECT after the INSERT is rejected (the pool has
\* lost its connection, the query times out): the catch block reports it.
SendLookupFails(k) ==
  /\ pc[k].op = "send_saved"
  /\ out' = Emit(k, "error", NoChannel, NoUser, 0, "Error sending message")
  /\ pc' = [pc EXCEPT ![k] = Idle]
  /\ UNCHANGED <<channels, members, dupRows, messages, rooms, connected, hjoin, evicted, nops>>

\* ------------------------------------------------------------------ typing
\* socket.on('typing'): the membership SELECT.
TypingStart(k, c) ==
  /\ CanStart /\ k \in connected /\ pc[k].op = "idle"
  /\ pc' = [pc EXCEPT ![k] = [Idle EXCEPT !.op = "typing", !.chan = c,
                                          !.found = isMember(c, userOf[k])]]
  /\ out' = <<>>
  /\ nops' = nops + 1
  /\ UNCHANGED <<channels, members, dupRows, messages, rooms, connected, hjoin, evicted>>

\* Mutant: typing answering a failed membership check the way join_channel
\* and send_message do.
TypingDoneLoud(k) ==
  /\ pc[k].op = "typing"
  /\ out' = IF pc[k].found
            THEN Broadcast(rooms, pc[k].chan, {k}, "user_typing", userOf[k], 0, "")
            ELSE NotMemberEvents(k, pc[k].chan, "You are not a member of this channel")
  /\ pc' = [pc EXCEPT ![k] = Idle]
  /\ UNCHANGED <<channels, members, dupRows, messages, rooms, connected, hjoin, evicted, nops>>

\* Mutant: user_typing sent with io.to(room), which reaches the sender too.
TypingDoneEcho(k) ==
  /\ pc[k].op = "typing"
  /\ out' = IF pc[k].found
            THEN Broadcast(rooms, pc[k].chan, {}, "user_typing", userOf[k], 0, "")
            ELSE <<>>
  /\ pc' = [pc EXCEPT ![k] = Idle]
  /\ UNCHANGED <<channels, members, dupRows, messages, rooms, connected, hjoin, evicted, nops>>

\* socket.on('typing'): silent return, or user_typing to the others.
TypingDone(k) ==
  /\ pc[k].op = "typing"
  /\ out' = IF pc[k].found
            THEN Broadcast(rooms, pc[k].chan, {k}, "user_typing", userOf[k], 0, "")
            ELSE <<>>
  /\ pc' = [pc EXCEPT ![k] = Idle]
  /\ UNCHANGED <<channels, members, dupRows, messages, rooms, connected, hjoin, evicted, nops>>

\* -------------------------------------------------- kick_user_from_channel
\* socket.on('kick_user_from_channel'): the creator SELECT.
KickStart(k, c, t) ==
  /\ CanStart /\ k \in connected /\ pc[k].op = "idle"
  /\ pc' = [pc EXCEPT ![k] = [Idle EXCEPT !.op = "kick", !.chan = c, !.target = t,
                                          !.creator = creatorOf(c)]]
  /\ out' = <<>>
  /\ nops' = nops + 1
  /\ UNCHANGED <<channels, members, dupRows, messages, rooms, connected, hjoin, evicted>>

\* Mutant: the kick handler without the creator check.
KickRefusalAnyRequester(creator, requester, t) ==
  IF creator = NoUser THEN "Channel not found" ELSE ""

\* The requester checks of the kick handler: "" when the kick goes ahead.
KickRefusal(creator, requester, t) ==
  IF creator = NoUser THEN "Channel not found"
  ELSE IF creator # requester THEN "Only channel creator can remove members"
  ELSE ""

\* Mutant: the eviction loop taking every socket of the target, whatever
\* room fetchSockets() was asked for.
KickTargetsAnywhere(rm, c, t) == {s \in connected : userOf[s] = t}

\* Mutant: the eviction loop stopping at the first socket of the target.
KickTargetsFirstOnly(rm, c, t) ==
  LET all == {s \in Subscribers(rm, c) : userOf[s] = t}
  IN  IF all = {} THEN {} ELSE {CHOOSE s \in all : TRUE}

\* The sockets the eviction loop removes: fetchSockets() of the room,
\* filtered by s.userId === kickedUserId.
KickTargets(rm, c, t) == {s \in Subscribers(rm, c) : userOf[s] = t}

\* Mutant: member_removed_notification sent before the eviction loop.
KickEventsNotifyFirst(rm, c, t) ==
  LET gone == KickTargets(rm, c, t)
      goneSeq == SelectSeq(ConnOrder, LAMBDA s : s \in gone)
  IN  Broadcast(rm, c, {}, "user_kicked", t, 0, "")
        \o Broadcast(rm, c, {}, "member_removed_notification", t, 0, "")
        \o [i \in 1..Len(goneSeq) |-> Ev(goneSeq[i], "force_leave_channel", c, NoUser, 0, "")]

\* user_kicked to the room, force_leave_channel to each evicted socket,
\* member_removed_notification to the room that remains.
KickEvents(rm, c, t) ==
  LET gone == KickTargets(rm, c, t)
      left == rm \ {<<c, s>> : s \in gone}
      goneSeq == SelectSeq(ConnOrder, LAMBDA s : s \in gone)
  IN  Broadcast(rm, c, {}, "user_kicked", t, 0, "")
        \o [i \in 1..Len(goneSeq) |-> Ev(goneSeq[i], "force_leave_channel", c, NoUser, 0, "")]
        \o Broadcast(left, c, {}, "member_removed_notification", t, 0, "")

\* Mutant: the eviction taking the target's sockets out of every room.
KickDoneAllRooms(k) ==
  /\ pc[k].op = "kick"
  /\ LET c == pc[k].chan
         t == pc[k].target
         refusal == KickRefusal(pc[k].creator, userOf[k], t)
     IN  IF refusal # ""
         THEN /\ out' = Emit(k, "error", NoChannel, NoUser, 0, refusal)
              /\ UNCHANGED <<rooms, evicted>>
         ELSE /\ rooms' = {r \in rooms : userOf[r[2]] # t}
              /\ out' = KickEvents(rooms, c, t)
              /\ evicted' = evicted \cup {<<c, t>>}
  /\ pc' = [pc EXCEPT ![k] = Idle]
  /\ UNCHANGED <<channels, members, dupRows, messages, connected, hjoin, nops>>

\* socket.on('kick_user_from_channel'): the code after the await.
KickDone(k) ==
  /\ pc[k].op = "kick"
  /\ LET c == pc[k].chan
         t == pc[k].target
         refusal == KickRefusal(pc[k].creator, userOf[k], t)
     IN  IF refusal # ""
         THEN /\ out' = Emit(k, "error", NoChannel, NoUser, 0, refusal)
              /\ UNCHANGED <<rooms, evicted>>
         ELSE /\ rooms' = rooms \ {<<c, s>> : s \in KickTargets(rooms, c, t)}
              /\ out' = KickEvents(rooms, c, t)
              /\ evicted' = evicted \cup {<<c, t>>}
  /\ pc' = [pc EXCEPT ![k] = Idle]
  /\ UNCHANGED <<channels, members, dupRows, messages, connected, hjoin, nops>>

\* -------------------------------------------------------------- connection
\* Mutant: the middleware admitting any token that is present.
HandshakeNoVerify(tok) == IF tok = "" THEN "Authentication required" ELSE ""

\* jwt.verify(token, JWT_SECRET): decoded.id, NoUser when it reports an error.
verify(tok) == CASE tok = "t1" -> 1 [] tok = "t2" -> 2 [] OTHER -> NoUser

\* The io.use middleware: the error it passes to next(), "" when it admits.
Handshake(tok) ==
  IF tok = "" THEN "Authentication required"
  ELSE IF verify(tok) = NoUser THEN "Invalid token"
  ELSE ""

\* A client opens a connection: the middleware admits the socket, which
\* gets its handlers in io.on('connection'), or refuses it.
Connect(k, tok) ==
  /\ CanStart /\ k \notin connected /\ pc[k].op = "idle"
  /\ LET refusal == Handshake(tok) IN
       IF refusal = ""
       THEN /\ connected' = connected \cup {k}
            /\ out' = <<>>
       ELSE /\ connected' = connected
            /\ out' = <<Ev(k, "connect_error", NoChannel, NoUser, 0, refusal)>>
  /\ nops' = nops + 1
  /\ UNCHANGED <<channels, members, dupRows, messages, rooms, pc, hjoin, evicted>>

\* -------------------------------------------------------------- disconnect
\* Mutant: a close that leaves the socket in its rooms.
DisconnectKeepRooms(k) ==
  /\ CanStart /\ k \in connected
  /\ connected' = connected \ {k}
  /\ rooms' = rooms
  /\ out' = <<>>
  /\ nops' = nops + 1
  /\ UNCHANGED <<channels, members, dupRows, messages, pc, hjoin, evicted>>

\* The socket closes: it leaves every room and the namespace.
Disconnect(k) ==
  /\ CanStart /\ k \in connected
  /\ connected' = connected \ {k}
  /\ rooms' = {r \in rooms : r[2] # k}
  /\ out' = <<>>
  /\ nops' = nops + 1
  /\ UNCHANGED <<channels, members, dupRows, messages, pc, hjoin, evicted>>

\* ------------------------------------------------------ HTTP: createChannel
\* One transaction: the channels row and the creator's channel_members row.
CreateChannel(u) ==
  /\ CanStart
  /\ Cardinality(DOMAIN channels) < MaxChannels
  /\ LET c == Cardinality(DOMAIN channels) + 1 IN
       /\ channels' = channels @@ (c :> u)
       /\ members' = members \cup {<<c, u>>}
       /\ out' = HttpResponse(u, c, 201, "Channel created successfully")
  /\ nops' = nops + 1
  /\ UNCHANGED <<messages, rooms, connected, pc, hjoin, evicted, dupRows>>

\* -------------------------------------------------------- HTTP: joinChannel
\* joinChannel: the "already a member" SELECT.
HttpJoinStart(u, c) ==
  /\ CanStart
  /\ BagCardinality(hjoin) < MaxHttp
  /\ hjoin' = hjoin (+) SetToBag({[user |-> u, chan |-> c, found |-> isMember(c, u)]})
  /\ out' = <<>>
  /\ nops' = nops + 1
  /\ UNCHANGED <<channels, members, dupRows, messages, rooms, connected, pc, evicted>>

\* Mutant: channel_members without UNIQUE(channel_id, user_id).
InsertRefusedNoUnique(c, u) == c \notin DOMAIN channels

\* INSERT INTO channel_members (channel_id, user_id): refused by the foreign
\* key on channel_id and by UNIQUE(channel_id, user_id).
InsertRefused(c, u) == c \notin DOMAIN channels \/ <<c, u>> \in members

\* joinChannel: 400, or the INSERT (500 when the database refuses it).
HttpJoinDone(r) ==
  /\ BagIn(r, hjoin)
  /\ hjoin' = hjoin (-) SetToBag({r})
  /\ IF r.found
     THEN /\ out' = HttpResponse(r.user, r.chan, 400, "Already a member of this channel")
          /\ UNCHANGED <<members, dupRows>>
     ELSE IF InsertRefused(r.chan, r.user)
     THEN /\ out' = HttpResponse(r.user, r.chan, 500, "Server error joining channel")
          /\ UNCHANGED <<members, dupRows>>
     ELSE /\ out' = HttpResponse(r.user, r.chan, 200, "Successfully joined channel")
          /\ members' = members \cup {<<r.chan, r.user>>}
          /\ dupRows' = IF <<r.chan, r.user>> \in members
                        THEN dupRows \cup {<<r.chan, r.user>>} ELSE dupRows
  /\ UNCHANGED <<channels, messages, rooms, connected, pc, evicted, nops>>

\* ---------------------------------------------- HTTP: removeUserFromChannel
\* The :userId path parameter: the decimal number it starts with, and
\* whether other characters follow it ("2abc").
UserIdParams == [num : Users, junk : BOOLEAN]

\* parseInt(userId): the leading decimal digits.
parseInt(p) == p.num

\* Mutant: removeUserFromChannel without the "can't remove creator" check.
RemoveStatusNoCreatorGuard(u, c, p) ==
  IF creatorOf(c) = NoUser THEN 404
  ELSE IF creatorOf(c) # u THEN 403
  ELSE IF p.junk THEN 500
  ELSE 200

\* The outcome of removeUserFromChannel for requester u: the HTTP status.
\* The DELETE passes the raw parameter as user_id, which the database
\* rejects unless it is a number.
RemoveStatus(u, c, p) ==
  IF creatorOf(c) = NoUser THEN 404
  ELSE IF creatorOf(c) # u THEN 403
  ELSE IF parseInt(p) = u THEN 400
  ELSE IF p.junk THEN 500
  ELSE 200

\* The message or error text removeUserFromChannel answers with.
RemoveText(status) ==
  CASE status = 404 -> "Channel not found"
    [] status = 403 -> "Only channel creator can remove members"
    [] status = 400 -> "Creator cannot be removed from channel"
    [] status = 500 -> "Server error removing user"
    [] OTHER -> "User removed from channel successfully"

\* removeUserFromChannel. The creator of a channel never changes, so the
\* creator SELECT and the DELETE that follows it are one step.
HttpRemove(u, c, p) ==
  /\ CanStart
  /\ LET status == RemoveStatus(u, c, p) IN
       /\ out' = HttpResponse(u, c, status, RemoveText(status))
       /\ IF status = 200
          THEN /\ members' = members \ {<<c, p.num>>}
               /\ dupRows' = dupRows \ {<<c, p.num>>}
               /\ evicted' = IF <<c, p.num>> \in members
                             THEN evicted \ {<<c, p.num>>} ELSE evicted
          ELSE UNCHANGED <<members, dupRows, evicted>>
  /\ nops' = nops + 1
  /\ UNCHANGED <<channels, messages, rooms, connected, pc, hjoin>>

\* -------------------------------------------------- HTTP: getChannelMessages
\* ORDER BY m.created_at DESC: the ids of the rows of channel c, newest
\* first; rows of equal created_at come in whatever order the database
\* picks, so this is the set of the orders it can answer with.
NewestFirst(c) ==
  LET ids == {i \in 1..Len(messages) : messages[i].chan = c}
  IN  {s \in [1..Cardinality(ids) -> ids] :
         \A i, j \in 1..Cardinality(ids) :
           i < j => s[i] # s[j] /\ messages[s[i]].at >= messages[s[j]].at}

\* LIMIT $2 OFFSET $3
Page(s, limit, offset) ==
  SubSeq(s, offset + 1, IF offset + limit < Len(s) THEN offset + limit ELSE Len(s))

\* result.rows.reverse()
reverse(s) == [i \in 1..Len(s) |-> s[Len(s) + 1 - i]]

\* getChannelMessages: one query, answered whoever asks.
HttpGetMessages(u, c, l, o) ==
  /\ CanStart
  /\ \E s \in NewestFirst(c) :
       LET limit == IF l = 0 THEN DefaultLimit ELSE l
           page == reverse(Page(s, limit, o))
       IN  out' = <<[Ev("http", "response", c, u, 200, "messages")
                       EXCEPT !.rows = [i \in 1..Len(page) |-> messages[page[i]]]]>>
  /\ nops' = nops + 1
  /\ UNCHANGED <<channels, members, dupRows, messages, rooms, connected, pc, hjoin, evicted>>

\* ------------------------------------------------------------- the browser
\* ChatPage, ChatRoom and MemberList of one browser session. A handler and
\* the render its state updates cause (effect cleanup and setup included)
\* are one step. `emitted` holds what the step sent on the socket.
Req(ev, c, u) == [ev |-> ev, chan |-> c, user |-> u]

\* A loadMessages request for channel c the server has not answered yet.
Pending(c) == [chan |-> c, answered |-> FALSE, rows |-> <<>>]

\* The error texts of server.js a socket can receive.
ErrorTexts == {"You are not a member of this channel", "Not a member of this channel",
               "Error sending message"}

\* message.includes('not a member'): the match is case-sensitive.
includesNotAMember(message) == message = "You are not a member of this channel"

\* The cleanup of ChatRoom's effect, run when `channel` changes or a
\* callback it depends on does: leaveChannel(), setMessages([]). MemberList
\* is unmounted with the room.
cleanup(cl) ==
  IF cl.channel = NoChannel THEN [cl EXCEPT !.emitted = <<>>]
  ELSE [cl EXCEPT !.emitted = <<Req("leave_channel", cl.channel, NoUser)>>,
                  !.messages = <<>>]

\* ChatPage.setSelectedChannel(c) and the render that follows: cleanup for
\* the old channel; for a new one loadMessages() and joinChannel().
setSelectedChannel(cl, c) ==
  LET old == cleanup(cl) IN
    IF c = NoChannel
    THEN [old EXCEPT !.channel = NoChannel, !.removeDialog = NoUser]
    ELSE [old EXCEPT !.channel = c, !.removeDialog = NoUser,
                     !.loads = @ \cup {Pending(c)},
                     !.canSendMessages = TRUE,
                     !.emitted = @ \o <<Req("join_channel", c, NoUser)>>]

\* handleForceLeave: setCanSendMessages(false), leaveChannel(),
\* onChannelRemoved (ChatPage.handleChannelRemoved deselects the channel),
\* setTimeout(onBack, 2000).
handleForceLeave(cl) ==
  LET left == [cl EXCEPT !.canSendMessages = FALSE]
      gone == setSelectedChannel(left, NoChannel)
  IN  [gone EXCEPT !.emitted = <<Req("leave_channel", cl.channel, NoUser)>> \o @,
                   !.timers = @ + 1]

\* AuthContext: the user logs in.
Login(u) ==
  /\ client.user = NoUser
  /\ client' = [client EXCEPT !.user = u, !.emitted = <<>>]
  /\ UNCHANGED serverVars

\* ChatPage.handleSelectChannel: the user picks a channel of the list.
handleSelectChannel(c) ==
  /\ client.user # NoUser /\ c \in DOMAIN channels /\ c # client.channel
  /\ Cardinality(client.loads) < MaxLoads
  /\ client' = setSelectedChannel(client, c)
  /\ UNCHANGED serverVars

\* getChannelMessages answers a loadMessages request.
LoadAnswered(l) ==
  /\ l \in client.loads /\ ~l.answered
  /\ \E s \in NewestFirst(l.chan) :
       client' = [client EXCEPT
                    !.loads = (@ \ {l})
                                \cup {[chan |-> l.chan, answered |-> TRUE,
                                       rows |-> reverse(Page(s, DefaultLimit, 0))]},
                    !.emitted = <<>>]
  /\ UNCHANGED serverVars

\* loadMessages after the await: setMessages(response.data.messages).
loadMessages(l) ==
  /\ l \in client.loads /\ l.answered
  /\ client' = [client EXCEPT !.loads = @ \ {l}, !.messages = l.rows, !.emitted = <<>>]
  /\ UNCHANGED serverVars

\* Mutant: handleNewMessage appending without looking for the id.
handleNewMessageAppends(n) ==
  /\ client.channel # NoChannel /\ n \in 1..Len(messages)
  /\ client' = [client EXCEPT !.messages = Append(@, n), !.emitted = <<>>]
  /\ UNCHANGED serverVars

\* handleNewMessage: new_message for row n arrives while the listeners are
\* registered.
handleNewMessage(n) ==
  /\ client.channel # NoChannel /\ n \in 1..Len(messages)
  /\ client' = [client EXCEPT
                  !.messages = IF \E i \in 1..Len(@) : @[i] = n THEN @ ELSE Append(@, n),
                  !.emitted = <<>>]
  /\ UNCHANGED serverVars

\* Mutant: force_leave_channel ignored by the chat room.
handleForceLeaveEventIgnored(c) ==
  /\ client.channel # NoChannel /\ client.timers < MaxTimers
  /\ client' = [client EXCEPT !.emitted = <<>>]
  /\ UNCHANGED serverVars

\* handleForceLeaveEvent: force_leave_channel { channelId: c } arrives.
handleForceLeaveEvent(c) ==
  /\ client.channel # NoChannel /\ client.timers < MaxTimers
  /\ client' = IF c = client.channel THEN handleForceLeave(client)
               ELSE [client EXCEPT !.emitted = <<>>]
  /\ UNCHANGED serverVars

\* handleSocketError: error { message } arrives.
handleSocketError(message) ==
  /\ client.channel # NoChannel /\ client.timers < MaxTimers
  /\ client' = IF includesNotAMember(message) THEN handleForceLeave(client)
               ELSE [client EXCEPT !.emitted = <<>>]
  /\ UNCHANGED serverVars

\* handleUserKicked: user_kicked { userId: u } arrives.
handleUserKicked(u) ==
  /\ client.channel # NoChannel /\ client.timers < MaxTimers
  /\ client' = IF u = client.user THEN handleForceLeave(client)
               ELSE [client EXCEPT !.emitted = <<>>]
  /\ UNCHANGED serverVars

\* The timer of handleForceLeave fires: onBack is ChatPage.handleBack.
handleBack ==
  /\ client.timers > 0
  /\ client' = [setSelectedChannel(client, NoChannel) EXCEPT !.timers = @ - 1]
  /\ UNCHANGED serverVars

\* handleSendMessage: the user submits the input of the open channel.
handleSendMessage ==
  /\ client.channel # NoChannel
  /\ client' = [client EXCEPT
                  !.emitted = IF client.canSendMessages
                              THEN <<Req("send_message", client.channel, NoUser)>>
                              ELSE <<>>]
  /\ UNCHANGED serverVars

\* handleTyping: the user types in the input of the open channel.
handleTyping ==
  /\ client.channel # NoChannel
  /\ client' = [client EXCEPT
                  !.emitted = IF client.canSendMessages
                              THEN <<Req("typing", client.channel, NoUser)>>
                              ELSE <<>>]
  /\ UNCHANGED serverVars

\* MemberList.handleOpenRemoveDialog: the button is there when canRemove.
handleOpenRemoveDialog(m) ==
  /\ client.channel # NoChannel
  /\ client.user = creatorOf(client.channel) /\ m # client.user
  /\ client.removeDialog # m
  /\ client' = [client EXCEPT !.removeDialog = m, !.emitted = <<>>]
  /\ UNCHANGED serverVars

\* MemberList.handleRemoveMember up to its await: api.delete is sent.
handleRemoveMember ==
  /\ client.removeDialog # NoUser
  /\ [chan |-> client.channel, member |-> client.removeDialog] \notin client.deleting
  /\ Cardinality(client.deleting) < MaxDeletes
  /\ client' = [client EXCEPT
                  !.deleting = @ \cup {[chan |-> client.channel,
                                        member |-> client.removeDialog]},
                  !.emitted = <<>>]
  /\ UNCHANGED serverVars

\* handleRemoveMember after the await. On success it emits
\* kick_user_from_channel and calls onMemberRemoved, which is ChatRoom's
\* handleMemberRemovedByCreator and emits kick_user_from_channel too; on
\* failure the catch block only reloads the members.
RemoveAnswered(d, ok) ==
  /\ d \in client.deleting
  /\ client' = [client EXCEPT
                  !.deleting = @ \ {d},
                  !.removeDialog = IF ok THEN NoUser ELSE @,
                  !.emitted = IF ok
                              THEN << Req("kick_user_from_channel", d.chan, d.member),
                                      Req("kick_user_from_channel", d.chan, d.member) >>
                              ELSE <<>>]
  /\ UNCHANGED serverVars

\* Somebody's send_message stores a row (the INSERT of the handler).
PeerPosts(c, u) ==
  /\ Len(messages) < MaxMsgs
  /\ \E t \in Timestamps :
       messages' = Append(messages, [id |-> Len(messages) + 1, chan |-> c, user |-> u,
                                     content |-> "hi", at |-> t])
  /\ client' = [client EXCEPT !.emitted = <<>>]
  /\ UNCHANGED <<channels, members, rooms, connected, pc, hjoin, out, evicted, dupRows, nops>>

\* -------------------------------------------------------- the specification
\* The packets a step emits leave the server before the next step runs:
\* `out` shows them in the state that follows the step, Flush clears it.
Flushed == out = <<>>

Flush ==
  /\ ~Flushed
  /\ out' = <<>>
  /\ UNCHANGED <<channels, members, dupRows, messages, rooms, connected, pc, hjoin,
                 evicted, nops, client>>

\* A step of the server: the packets of the last step have left, and the
\* browser's state is not the server's to change.
Serving == Flushed /\ UNCHANGED client

\* A step of a handler whose database query has been answered.
ServerStep ==
  \/ Serving /\ \E k \in Conns : JoinDone(k)
  \/ Serving /\ \E k \in Conns : SendReject(k)
  \/ Serving /\ \E k \in Conns : SendInsert(k)
  \/ Serving /\ \E k \in Conns : SendBroadcast(k)
  \/ Serving /\ \E k \in Conns : TypingDone(k)
  \/ Serving /\ \E k \in Conns : KickDone(k)
  \/ Serving /\ \E r \in BagToSet(hjoin) : HttpJoinDone(r)

\* The server takes a request once the packets of the last step have left
\* and the run still accepts requests.
Ready == Serving /\ CanStart

\* A request arriving from a client.
ClientStep ==
  \/ Ready /\ \E k \in Conns, c \in RequestChannels : JoinStart(k, c)
  \/ Ready /\ \E k \in Conns, c \in RequestChannels : Leave(k, c)
  \/ Ready /\ \E k \in Conns, c \in RequestChannels, m \in Contents : SendStart(k, c, m)
  \/ Ready /\ \E k \in Conns, c \in RequestChannels : TypingStart(k, c)
  \/ Ready /\ \E k \in Conns, c \in RequestChannels, t \in Users : KickStart(k, c, t)
  \/ Ready /\ \E k \in Conns : Disconnect(k)
  \/ Ready /\ \E k \in {s \in Conns : userOf[s] = NoUser} :
       \E tok \in tokensOf[k] : Connect(k, tok)
  \/ Ready /\ \E u \in Users : CreateChannel(u)
  \/ Ready /\ \E u \in Users, c \in RequestChannels : HttpJoinStart(u, c)
  \/ Ready /\ \E u \in Users, c \in RequestChannels, p \in UserIdParams :
       HttpRemove(u, c, p)
  \/ Ready /\ \E u \in Users, c \in RequestChannels, l \in LimitParams,
                o \in OffsetParams :
       HttpGetMessages(u, c, l, o)

Next == ClientStep \/ ServerStep \/ Flush

Spec == Init /\ [][Next]_vars

\* The server answers every query and runs every continuation; clients are
\* free to send nothing more.
\* A query of a handler rejected by a database that has become unreachable.
FaultStep == Serving /\ \E k \in Conns : SendLookupFails(k)

FaultNext == Next \/ FaultStep

\* The server on a database whose connection can fail between two queries.
FaultSpec == Init /\ [][FaultNext]_vars

\* The chat room of the browser: what the user does in it, what reaches it
\* (HTTP responses, socket events, its timers), and what the server does for
\* it and for the other users meanwhile.
ChatRoomNext ==
  \/ \E u \in Users : Login(u)
  \/ \E c \in ChannelIds : handleSelectChannel(c)
  \/ handleSendMessage
  \/ handleTyping
  \/ \E l \in client.loads : LoadAnswered(l)
  \/ \E l \in client.loads : loadMessages(l)
  \/ \E n \in 1..MaxMsgs : handleNewMessage(n)
  \/ \E c \in ChannelIds : handleForceLeaveEvent(c)
  \/ \E message \in ErrorTexts : handleSocketError(message)
  \/ \E u \in Users : handleUserKicked(u)
  \/ handleBack
  \/ \E c \in DOMAIN channels : PeerPosts(c, creatorOf(c))
  \/ Ready /\ client.user # NoUser /\ CreateChannel(client.user)

\* One browser's chat room, with a server that may send it any event at any
\* time.
ChatRoomSpec == Init /\ [][ChatRoomNext]_vars

\* The member list of the browser's open channel.
MemberListNext ==
  \/ \E u \in Users : Login(u)
  \/ \E c \in ChannelIds : handleSelectChannel(c)
  \/ \E l \in client.loads : LoadAnswered(l)
  \/ \E l \in client.loads : loadMessages(l)
  \/ \E m \in Users : handleOpenRemoveDialog(m)
  \/ handleRemoveMember
  \/ \E d \in client.deleting, ok \in BOOLEAN : RemoveAnswered(d, ok)
  \/ \E u \in Users : handleUserKicked(u)
  \/ handleBack
  \/ Ready /\ \E u \in Users : CreateChannel(u)

\* One browser's member list and the removals its user confirms.
MemberListSpec == Init /\ [][MemberListNext]_vars

FairSpec == Spec /\ WF_vars(ServerStep) /\ WF_vars(Flush)

\* ------------------------------------------------------------------ claims
\* A step in which socket k's handler `op` returns.
Returns(k, op) == pc[k].op = op /\ pc'[k].op = "idle"

\* A step in which socket k's kick handler passes the requester checks.
KickGoesAhead(k) == Returns(k, "kick") /\ pc[k].creator = userOf[k]

\* No handler is waiting for the database: the server has nothing left to do
\* until a client sends something.
ServerQuiescent == (\A k \in Conns : pc[k].op = "idle") /\ hjoin = EmptyBag

\* Socket k is subscribed to the room of channel c.
Subscribed(k, c) == k \in connected /\ <<c, k>> \in rooms

\* The last step delivered event `ev` for channel c to socket k.
Delivered(k, ev, c) == \E i \in 1..Len(out) : out[i].to = k /\ out[i].ev = ev /\ out[i].chan = c

\* The texts of the answers of the HTTP removal endpoint.
RemoveTexts == {"Channel not found", "Only channel creator can remove members",
                "Creator cannot be removed from channel", "Server error removing user",
                "User removed from channel successfully"}

\* C1: a send_message whose membership check finds no row persists no
\* message row and delivers no new_message to anyone; the sender gets error
\* and then force_leave_channel. The check reads the membership table when
\* the send starts, whatever the room says: a send started while no row
\* exists is always rejected this way.
C1_NonMemberSendRejected ==
  [][\A k \in Conns :
       /\ (pc[k].op = "idle" /\ pc'[k].op = "send" /\ <<pc'[k].chan, userOf[k]>> \notin members)
            => ~pc'[k].found
       /\ (pc[k].op = "send" /\ ~pc[k].found /\ pc'[k] # pc[k])
            => /\ pc'[k].op = "idle"
               /\ messages' = messages
               /\ \A i \in 1..Len(out') : out'[i].ev # "new_message"
               /\ k \in connected =>
                    out' = << Ev(k, "error", NoChannel, NoUser, 0,
                                 "You are not a member of this channel"),
                              Ev(k, "force_leave_channel", pc[k].chan, NoUser, 0, "") >>
    ]_vars

\* C1 witness: a socket still subscribed to the room, whose user has no
\* membership row, has just had a send rejected.
C1_Witness ==
  \E k \in Conns, c \in ChannelIds :
    /\ Subscribed(k, c) /\ ~isMember(c, userOf[k])
    /\ Len(out) = 2
    /\ out[1] = Ev(k, "error", NoChannel, NoUser, 0, "You are not a member of this channel")
    /\ out[2] = Ev(k, "force_leave_channel", c, NoUser, 0, "")

\* C2: when the kick handler completes for a non-creator target, no
\* membership row exists for (channel, target) and no socket of the target is
\* subscribed to the channel's room.
C2_KickLeavesNoRowNoSubscription ==
  [][\A k \in Conns :
       (KickGoesAhead(k) /\ pc[k].target # pc[k].creator)
         => /\ <<pc[k].chan, pc[k].target>> \notin members'
            /\ \A j \in connected' : userOf[j] = pc[k].target => <<pc[k].chan, j>> \notin rooms'
    ]_vars

\* C3: a socket is subscribed to a room without a membership row of its user
\* only while a forced removal is in progress: the row was deleted and the
\* eviction of the kick handler for (channel, user) has not run since.
C3_StaleOnlyUntilEviction ==
  \A k \in Conns, c \in ChannelIds :
    (Subscribed(k, c) /\ ~isMember(c, userOf[k])) => <<c, userOf[k]>> \notin evicted

\* C4: the removal of a membership row over HTTP gets the user's subscribed
\* sockets out of the room by the server's own doing, with no further client
\* request: so once the server has run every handler to its end, no socket
\* is subscribed to a room without a membership row of its user.
C4_RemovalEvicts ==
  ServerQuiescent =>
    \A k \in Conns, c \in ChannelIds : Subscribed(k, c) => isMember(c, userOf[k])

\* C5: a kick whose target is the channel's creator fails, over the socket
\* event and over HTTP alike: an error to the requester and nothing else, no
\* socket leaves the room, membership is unchanged.
C5_CreatorKickFails ==
  [][/\ \A k \in Conns :
          (Returns(k, "kick") /\ pc[k].creator # NoUser /\ pc[k].target = pc[k].creator)
            => /\ rooms' = rooms /\ members' = members
               /\ \A i \in 1..Len(out') : out'[i].to = k /\ out'[i].ev = "error"
     /\ \A u \in Users, c \in ChannelIds, p \in UserIdParams :
          (HttpRemove(u, c, p) /\ creatorOf(c) # NoUser /\ parseInt(p) = creatorOf(c))
            => /\ rooms' = rooms /\ members' = members
               /\ out'[1].n >= 400
    ]_vars

C7_EveryDeviceEvicted ==
  [][\A k \in Conns : KickGoesAhead(k) =>
       \A s \in Conns :
         (Subscribed(s, pc[k].chan) /\ userOf[s] = pc[k].target)
           => /\ <<pc[k].chan, s>> \notin rooms'
              /\ \E i \in 1..Len(out') :
                   out'[i] = Ev(s, "force_leave_channel", pc[k].chan, NoUser, 0, "")
    ]_vars

\* C7 witness: two sockets of one user have just been evicted from the same
\* room by one kick.
C7_Witness ==
  \E c \in ChannelIds :
    /\ Delivered("k2", "force_leave_channel", c) /\ Delivered("k3", "force_leave_channel", c)
    /\ <<c, "k2">> \notin rooms /\ <<c, "k3">> \notin rooms

\* C8: when a join_channel handler completes successfully, a membership row
\* exists for (channel, the socket's user) and the socket is in the room
\* (stated for sockets that are still open when the handler completes).
C8_JoinedImpliesMember ==
  [][\A k \in Conns :
       (Returns(k, "join") /\ pc[k].found /\ k \in connected)
         => /\ <<pc[k].chan, userOf[k]>> \in members'
            /\ <<pc[k].chan, k>> \in rooms'
    ]_vars

\* C9: a kick or an HTTP removal requested by a user who is not the
\* channel's creator is refused: the requester alone gets the error, rooms
\* and membership rows are unchanged, nobody is notified.
C9_NonCreatorKickRefused ==
  [][/\ \A k \in Conns :
          (Returns(k, "kick") /\ pc[k].creator \notin {NoUser, userOf[k]})
            => /\ rooms' = rooms /\ members' = members
               /\ out' = IF k \in connected
                         THEN <<Ev(k, "error", NoChannel, NoUser, 0,
                                   "Only channel creator can remove members")>>
                         ELSE <<>>
     /\ \A i \in 1..Len(out') :
          (/\ out'[i].ev = "response" /\ out'[i].text \in RemoveTexts
           /\ creatorOf(out'[i].chan) \notin {NoUser, out'[i].user})
            => /\ rooms' = rooms /\ members' = members
               /\ out' = <<Ev("http", "response", out'[i].chan, out'[i].user, 403,
                              "Only channel creator can remove members")>>
    ]_vars

\* C9 witness: a non-creator's kick of a subscribed user has just been
\* refused.
C9_Witness ==
  \E k \in Conns, c \in DOMAIN channels :
    /\ userOf[k] # channels[c]
    /\ Subscribed(k, c)
    /\ out = <<Ev(k, "error", NoChannel, NoUser, 0, "Only channel creator can remove members")>>

\* C10: whenever user_kicked for (channel, target) is delivered, the
\* membership row of (channel, target) is already gone (stated for targets
\* other than the creator, whose row is never deleted).
C10_KickedAfterDeletion ==
  \A i \in 1..Len(out) :
    (out[i].ev = "user_kicked" /\ out[i].user # creatorOf(out[i].chan))
      => <<out[i].chan, out[i].user>> \notin members

\* What the last step (o = out) or this step (o = out') delivered to socket s.
Inbox(o, s) == SelectSeq(o, LAMBDA e : e.to = s)

\* The sockets an emission o delivered event `ev` to.
Recipients(o, ev) == {o[i].to : i \in {j \in 1..Len(o) : o[j].ev = ev}}

\* content.trim() on the contents the clients send.
trim(content) == IF content = " " THEN "" ELSE content

\* C11: in a kick that goes ahead, each subscribed socket of the target gets
\* user_kicked and then force_leave_channel and nothing else, in particular
\* not the member_removed_notification of that kick, which goes exactly to
\* the sockets subscribed after the eviction.
C11_KickedThenForcedOut ==
  [][\A k \in Conns : KickGoesAhead(k) =>
       LET c == pc[k].chan
           t == pc[k].target
       IN  /\ \A s \in Conns :
                (Subscribed(s, c) /\ userOf[s] = t)
                  => Inbox(out', s) = << Ev(s, "user_kicked", c, t, 0, ""),
                                         Ev(s, "force_leave_channel", c, NoUser, 0, "") >>
           /\ Recipients(out', "member_removed_notification")
                = {s \in connected' : <<c, s>> \in rooms'}
    ]_vars

\* C11 witness: a kick has just evicted k2, which got user_kicked and then
\* force_leave_channel, while k1, which stays, got the notification.
C11_Witness ==
  \E c \in ChannelIds :
    /\ Inbox(out, "k2") = << Ev("k2", "user_kicked", c, 2, 0, ""),
                             Ev("k2", "force_leave_channel", c, NoUser, 0, "") >>
    /\ Delivered("k1", "member_removed_notification", c)
    /\ <<c, "k2">> \notin rooms

\* C12: a history request for an existing channel from a user without a
\* membership row for it is rejected and hands out no message.
C12_HistoryGated ==
  \A i \in 1..Len(out) :
    (out[i].ev = "response" /\ out[i].text = "messages"
       /\ out[i].chan \in DOMAIN channels
       /\ ~isMember(out[i].chan, out[i].user))
      => out[i].n # 200 /\ out[i].rows = <<>>

\* C13: a send_message whose content is empty or only whitespace is rejected,
\* so no message whose content is empty after trimming is ever persisted.
C13_BlankContentRejected ==
  \A i \in 1..Len(messages) : trim(messages[i].content) # ""

\* C14: a join_channel whose membership check finds no row (as it does
\* whenever no row exists when the join starts) leaves the rooms as they are
\* and emits no user_joined and no room_info; the requester gets error and
\* then force_leave_channel for the channel.
C14_FailedJoinRejected ==
  [][\A k \in Conns :
       /\ (pc[k].op = "idle" /\ pc'[k].op = "join" /\ <<pc'[k].chan, userOf[k]>> \notin members)
            => ~pc'[k].found
       /\ (Returns(k, "join") /\ ~pc[k].found)
            => /\ rooms' = rooms
               /\ \A i \in 1..Len(out') : out'[i].ev \notin {"user_joined", "room_info"}
               /\ k \in connected =>
                    out' = << Ev(k, "error", NoChannel, NoUser, 0, "Not a member of this channel"),
                              Ev(k, "force_leave_channel", pc[k].chan, NoUser, 0, "") >>
    ]_vars

\* C14 witness: a join has just been rejected for a room another socket is
\* subscribed to, and the requester is not in the room.
C14_Witness ==
  \E k, s \in Conns, c \in ChannelIds :
    /\ s # k /\ Subscribed(s, c) /\ <<c, k>> \notin rooms
    /\ out = << Ev(k, "error", NoChannel, NoUser, 0, "Not a member of this channel"),
                Ev(k, "force_leave_channel", c, NoUser, 0, "") >>

\* C15: a typing signal whose membership check finds no row (as it does
\* whenever no row exists when the signal arrives) emits nothing at all: no
\* user_typing to anyone, no error and no force_leave_channel to the sender.
C15_NonMemberTypingDropped ==
  [][\A k \in Conns :
       /\ (pc[k].op = "idle" /\ pc'[k].op = "typing" /\ <<pc'[k].chan, userOf[k]>> \notin members)
            => ~pc'[k].found
       /\ (Returns(k, "typing") /\ ~pc[k].found)
            => out' = <<>> /\ rooms' = rooms
    ]_vars

\* C15 witness: the typing signal of a user whose row has been deleted has
\* failed its membership check, for a room another socket is subscribed to.
C15_Witness ==
  \E k, s \in Conns, c \in DOMAIN channels :
    /\ pc[k].op = "typing" /\ pc[k].chan = c /\ ~pc[k].found
    /\ s # k /\ Subscribed(s, c)

\* C16: a typing signal that passes the membership check is delivered as
\* user_typing, once, to every socket subscribed to the room except the
\* sending socket, and to nobody else.
C16_TypingToOthersOnly ==
  [][\A k \in Conns : (Returns(k, "typing") /\ pc[k].found) =>
       LET others == Subscribers(rooms, pc[k].chan) \ {k}
       IN  /\ {out'[i].to : i \in 1..Len(out')} = others
           /\ Len(out') = Cardinality(others)
           /\ \A i \in 1..Len(out') :
                out'[i] = Ev(out'[i].to, "user_typing", pc[k].chan, userOf[k], 0, "")
    ]_vars

\* C16 witness: k1, subscribed to the room, has just typed; k2 got
\* user_typing and k1 got nothing.
C16_Witness ==
  \E c \in ChannelIds :
    /\ Subscribed("k1", c)
    /\ out = <<Ev("k2", "user_typing", c, 1, 0, "")>>

C18_JoinNotifications ==
  [][\A k \in Conns : (Returns(k, "join") /\ pc[k].found /\ k \in connected) =>
       LET c == pc[k].chan
           subs == {s \in connected' : <<c, s>> \in rooms'}
       IN  /\ k \in subs
           /\ Recipients(out', "user_joined") = subs \ {k}
           /\ Recipients(out', "room_info") = subs
           /\ Len(out') = 2 * Cardinality(subs) - 1
           /\ \A i, j \in 1..Len(out') :
                (out'[i].ev = "user_joined" /\ out'[j].ev = "room_info") => i < j
           /\ \A i \in 1..Len(out') :
                /\ out'[i].chan = c
                /\ out'[i].ev = "user_joined" => out'[i].user = userOf[k]
    ]_vars

\* C18 witness: a socket of user 2 has just joined a room k1 is in: k1 got
\* user_joined, then both got room_info.
C18_Witness ==
  \E k \in {"k2", "k3"}, c \in ChannelIds :
    /\ Len(out) = 3
    /\ out[1] = Ev("k1", "user_joined", c, 2, 0, "")
    /\ out[2] = Ev("k1", "room_info", c, NoUser, 2, "")
    /\ out[3] = Ev(k, "room_info", c, NoUser, 2, "")

\* C19: the onlineCount of a room_info is the number of sockets subscribed
\* to the room when it is emitted, which is at least 1.
C19_OnlineCountIsRoomSize ==
  \A i \in 1..Len(out) :
    out[i].ev = "room_info"
      => /\ out[i].n = Cardinality({k \in Conns : Subscribed(k, out[i].chan)})
         /\ out[i].n >= 1

\* C19 witness: a room_info counting three sockets for a channel that has
\* two membership rows.
C19_Witness ==
  \E i \in 1..Len(out) :
    /\ out[i].ev = "room_info" /\ out[i].n = 3
    /\ Cardinality({u \in Users : isMember(out[i].chan, u)}) = 2

\* C20: a socket that was admitted and has closed is in no room, gets
\* nothing of what is emitted afterwards, and no room_info counts it.
C20_ClosedSocketGone ==
  \A k \in {s \in Conns \ connected : userOf[s] # NoUser} :
    /\ \A c \in ChannelIds : <<c, k>> \notin rooms
    /\ Inbox(out, k) = <<>>
    /\ \A i \in 1..Len(out) :
         out[i].ev = "room_info"
           => out[i].n <= Cardinality({s \in connected : <<out[i].chan, s>> \in rooms})

\* C20 witness: the join_channel of k1 has completed after k1 closed; the
\* room's other socket was told, the count is 1 and k1 is not in the room.
C20_Witness ==
  \E s \in connected, c \in ChannelIds :
    /\ "k1" \notin connected /\ <<c, "k1">> \notin rooms
    /\ out = << Ev(s, "user_joined", c, 1, 0, ""),
                Ev(s, "room_info", c, NoUser, 1, "") >>

\* A step in which socket k's handler ends in a failure: a gate rejection
\* (no membership row, not the creator, unknown channel) or a refused INSERT.
Fails(k) ==
  \/ Returns(k, "join") /\ ~pc[k].found
  \/ Returns(k, "send") /\ (~pc[k].found \/ pc[k].content = NoContent)
  \/ Returns(k, "typing") /\ ~pc[k].found
  \/ Returns(k, "kick") /\ pc[k].creator # userOf[k]

\* C21: a socket that presents no token or one that does not verify is
\* refused, and the refusal changes nothing on the server; a socket that has
\* never presented a valid token is never connected, never has a handler
\* running, is in no room, and gets nothing but the refusal.
C21_UnauthenticatedNeverAdmitted ==
  [][\A k \in Conns :
       /\ (\E i \in 1..Len(out') : out'[i].to = k /\ out'[i].ev = "connect_error")
            => UNCHANGED <<channels, members, messages, rooms, connected, pc, hjoin>>
       /\ userOf[k] = NoUser
            => /\ k \notin connected'
               /\ pc'[k] = Idle
               /\ \A c \in ChannelIds : <<c, k>> \notin rooms'
               /\ \A i \in 1..Len(out') :
                    out'[i].to = k
                      => /\ out'[i].ev = "connect_error"
                         /\ out'[i].text \in {"Authentication required", "Invalid token"}
    ]_vars

\* C21 witness: k0 has just been refused for a token that does not verify,
\* while another socket is subscribed to a room.
C21_Witness ==
  /\ \E c \in ChannelIds : Subscribed("k1", c)
  /\ out = <<Ev("k0", "connect_error", NoChannel, NoUser, 0, "Invalid token")>>
  /\ "k0" \notin connected

\* C22: leave_channel from a socket that is not in the room changes no room
\* and nothing else of the server's state, and reports no error.
C22_LeaveWhenNotSubscribed ==
  [][(/\ nops' = nops + 1 /\ pc' = pc /\ hjoin' = hjoin
      /\ (out' = <<>> \/ out'[1].ev \notin {"response", "connect_error"}))
       => \A k \in Conns, c \in ChannelIds :
            (<<c, k>> \notin rooms /\ Leave(k, c))
              => /\ UNCHANGED <<channels, members, dupRows, messages, rooms, connected,
                                pc, hjoin, evicted>>
                 /\ \A i \in 1..Len(out') : out'[i].ev # "error"
    ]_vars

\* C22 witness: two requests have been made, a join by a socket of user 2
\* and a leave by k1, which was never in the room.
C22_Witness ==
  \E s \in {"k2", "k3"}, c \in ChannelIds :
    /\ nops = 2
    /\ Subscribed(s, c) /\ <<c, "k1">> \notin rooms
    /\ out = <<Ev(s, "user_left", c, 1, 0, "")>>

\* C23: a successful join_channel of a socket that is already in the room
\* leaves the rooms as they are, and the room_info it emits counts the
\* sockets that were subscribed before it.
C23_JoinIdempotent ==
  [][\A k \in Conns :
       (Returns(k, "join") /\ pc[k].found /\ Subscribed(k, pc[k].chan))
         => /\ rooms' = rooms
            /\ \E i \in 1..Len(out') : out'[i].to = k /\ out'[i].ev = "room_info"
            /\ \A i \in 1..Len(out') :
                 out'[i].ev = "room_info"
                   => out'[i].n = Cardinality({s \in Conns : Subscribed(s, pc[k].chan)})
    ]_vars

\* C23 witness: the second join_channel of a socket that is in the room has
\* passed its membership check, in a room with another subscriber.
C23_Witness ==
  \E k, s \in Conns :
    /\ pc[k].op = "join" /\ pc[k].found
    /\ Subscribed(k, pc[k].chan)
    /\ s # k /\ Subscribed(s, pc[k].chan)

\* C24: a kick that goes ahead while no socket of the target is subscribed
\* emits user_kicked and member_removed_notification to the room and nothing
\* else, and leaves rooms and membership rows as they are; the creator's
\* HTTP removal of a user who has no row answers 200 and changes nothing.
C24_KickWithoutTargetSockets ==
  [][/\ \A k \in Conns :
          (KickGoesAhead(k)
             /\ ~\E s \in Conns : Subscribed(s, pc[k].chan) /\ userOf[s] = pc[k].target)
            => LET subs == Subscribers(rooms, pc[k].chan) IN
                 /\ rooms' = rooms /\ members' = members
                 /\ Recipients(out', "user_kicked") = subs
                 /\ Recipients(out', "member_removed_notification") = subs
                 /\ Len(out') = 2 * Cardinality(subs)
     /\ \A u \in Users, c \in ChannelIds, p \in UserIdParams :
          (/\ out' # <<>> /\ out'[1].ev = "response" /\ out'[1].text \in RemoveTexts
           /\ u = creatorOf(c) /\ ~p.junk /\ <<c, p.num>> \notin members
           /\ p.num # u
           /\ HttpRemove(u, c, p))
            => /\ out'[1].n = 200
               /\ rooms' = rooms /\ members' = members
    ]_vars

\* C24 witness: a kick of user 2 has just run in a room where only k1 is:
\* k1 got both notifications and nobody got force_leave_channel.
C24_Witness ==
  \E c \in ChannelIds :
    out = << Ev("k1", "user_kicked", c, 2, 0, ""),
             Ev("k1", "member_removed_notification", c, 2, 0, "") >>

\* C25: a kick from channel c changes no membership row, changes no other
\* channel's room and emits events for c only; an HTTP removal from c changes
\* no room and no other channel's membership rows.
C25_KickScopedToChannel ==
  [][/\ \A k \in Conns : KickGoesAhead(k) =>
          /\ members' = members
          /\ \A d \in ChannelIds \ {pc[k].chan}, s \in Conns :
               (<<d, s>> \in rooms') <=> (<<d, s>> \in rooms)
          /\ \A i \in 1..Len(out') : out'[i].chan = pc[k].chan
     /\ \A i \in 1..Len(out') :
          (out'[i].ev = "response" /\ out'[i].text = "User removed from channel successfully")
            => /\ rooms' = rooms
               /\ \A d \in ChannelIds \ {out'[i].chan}, u \in Users :
                    (<<d, u>> \in members') <=> (<<d, u>> \in members)
    ]_vars

\* C25 witness: user 2 has just been removed from a channel while being a
\* member of another channel, to whose room one of its sockets is subscribed.
C25_Witness ==
  \E c, d \in DOMAIN channels, k \in {"k2", "k3"} :
    /\ c # d
    /\ ~isMember(c, 2) /\ isMember(d, 2) /\ Subscribed(k, d)
    /\ out = <<Ev("http", "response", c, channels[c], 200,
                  "User removed from channel successfully")>>

\* C26: an error event is only ever emitted by a handler that fails, to the
\* socket that handler belongs to; a failing handler emits to no other
\* socket.
C26_ErrorToInitiatorOnly ==
  [][/\ \A i \in 1..Len(out') :
          out'[i].ev = "error" => (out'[i].to \in Conns /\ Fails(out'[i].to))
     /\ \A k \in Conns : Fails(k) => \A i \in 1..Len(out') : out'[i].to = k
    ]_vars

\* C26 witness: k2 has just been told it is not a member; k3, of the same
\* user and subscribed to that room, got nothing.
C26_Witness ==
  \E c \in ChannelIds :
    /\ Subscribed("k3", c)
    /\ out = << Ev("k2", "error", NoChannel, NoUser, 0, "Not a member of this channel"),
                Ev("k2", "force_leave_channel", c, NoUser, 0, "") >>

\* C27: no (channel, user) pair ever has more than one membership row.
C27_OneRowPerMember ==
  dupRows = {}

\* C27 witness: of two joinChannel requests that both passed the
\* already-a-member check, one has inserted the row and the other has just
\* been refused by the database.
C27_Witness ==
  \E c \in DOMAIN channels, u \in Users :
    /\ isMember(c, u)
    /\ out = <<Ev("http", "response", c, u, 500, "Server error joining channel")>>

\* C28: a history response lists its messages in the order of their ids
\* (creation order, equal timestamps included).
C28_HistoryInCreationOrder ==
  \A i \in 1..Len(out) :
    (out[i].ev = "response" /\ out[i].text = "messages")
      => \A a, b \in 1..Len(out[i].rows) :
           a < b => out[i].rows[a].id < out[i].rows[b].id

\* C29: a history request with limit 1 and no offset answers with exactly
\* the message persisted last in the channel.
C29_SendThenFetchOne ==
  [][\A u \in Users, c \in ChannelIds :
       (/\ out' # <<>> /\ out'[1].ev = "response"
        /\ \E n \in 1..Len(messages) : messages[n].chan = c
        /\ HttpGetMessages(u, c, 1, 0))
         => LET M == messages[CHOOSE n \in 1..Len(messages) :
                                 /\ messages[n].chan = c
                                 /\ \A m \in 1..Len(messages) :
                                      messages[m].chan = c => m <= n]
            IN  out'[1].rows = <<M>>
    ]_vars

\* C30: a handler that fails changes no room and no table, leaves every
\* other handler in flight as it is, and emits to its own socket only, so
\* the operations on other channels proceed as without it.
C30_FailureIsLocal ==
  [][\A k \in Conns : Fails(k) =>
       /\ UNCHANGED <<channels, members, dupRows, messages, rooms, connected, hjoin>>
       /\ \A j \in Conns \ {k} : pc'[j] = pc[j]
       /\ \A i \in 1..Len(out') : out'[i].to = k
    ]_vars

\* C30 witness: a kick on one channel has just been refused while a
\* join_channel that passed its check on another channel is in flight.
C30_Witness ==
  \E k, j \in Conns :
    /\ out = <<Ev(k, "error", NoChannel, NoUser, 0, "Only channel creator can remove members")>>
    /\ pc[j].op = "join" /\ pc[j].found
    /\ pc[j].chan \in DOMAIN channels /\ pc[j].chan # 1
    /\ userOf[k] # creatorOf(1)

\* The user id jwt.verify extracts from the token socket k connects with.
IdentityOf(k) == CHOOSE u \in Users \cup {NoUser} : \A tok \in tokensOf[k] : verify(tok) = u

\* C31: whenever send_message inserts a row, its author has a membership row
\* for the row's channel at that moment.
C31_AuthorIsMemberAtInsert ==
  [][messages' # messages
       => isMember(messages'[Len(messages')].chan, messages'[Len(messages')].user)
    ]_vars

\* C32: the rows of a channel are broadcast in the order of their ids: when
\* new_message for a row is delivered, no earlier row of that channel is
\* still waiting for its broadcast.
C32_BroadcastInIdOrder ==
  \A i \in 1..Len(out) :
    out[i].ev = "new_message"
      => ~\E k \in Conns : /\ pc[k].op = "send_saved"
                           /\ pc[k].chan = out[i].chan
                           /\ pc[k].msg < out[i].n

\* C33: the author of every row a socket's send_message inserts, and the
\* userId of every user_joined, user_left, user_typing and new_message a
\* socket's request causes, is the id verified from that socket's token.
C33_IdentityFromCredential ==
  [][\A k \in Conns :
       /\ (pc[k].op = "send" /\ pc'[k].op = "send_saved")
            => /\ Len(messages') = Len(messages) + 1
               /\ messages'[Len(messages')].user = IdentityOf(k)
       /\ (Returns(k, "join") \/ Returns(k, "typing") \/ Returns(k, "send_saved"))
            => \A i \in 1..Len(out') :
                 out'[i].ev \in {"user_joined", "user_typing", "new_message"}
                   => out'[i].user = IdentityOf(k)
       /\ (out' # <<>> /\ out'[1].ev = "user_left")
            => \A c \in ChannelIds :
                 Leave(k, c) => \A i \in 1..Len(out') : out'[i].user = IdentityOf(k)
    ]_vars

\* C33 witness: a message of k2 has been stored with author 2 and k1 has
\* just been told that user 2 is typing.
C33_Witness ==
  \E c \in ChannelIds :
    /\ \E n \in 1..Len(messages) : messages[n].user = 2
    /\ \E i \in 1..Len(out) :
         out[i].to = "k1" /\ out[i].ev = "user_typing" /\ out[i].user = 2 /\ out[i].chan = c

\* C34: a send_message rejected for lack of a membership row changes no
\* room, so a sender that was in the room is still in it, and every later
\* new_message of that room goes to all its subscribers, members or not.
C34_RejectedSendKeepsRooms ==
  [][\A k \in Conns :
       /\ (Returns(k, "send") /\ ~pc[k].found)
            => /\ rooms' = rooms
               /\ \A c \in ChannelIds : Subscribed(k, c) => <<c, k>> \in rooms'
       /\ Returns(k, "send_saved")
            => \A s \in Conns :
                 Subscribed(s, pc[k].chan) => s \in Recipients(out', "new_message")
    ]_vars

\* C34 witness: k2's message has just been rejected, and k2 is still in the
\* room of the channel it is no longer a member of.
C34_Witness ==
  \E c \in DOMAIN channels :
    /\ Subscribed("k2", c) /\ ~isMember(c, 2)
    /\ out = << Ev("k2", "error", NoChannel, NoUser, 0,
                   "You are not a member of this channel"),
                Ev("k2", "force_leave_channel", c, NoUser, 0, "") >>

\* C35: user_left is delivered to a room only for a leave_channel of a
\* socket that was in that room.
C35_UserLeftOnlyFromSubscriber ==
  [][(out' # <<>> /\ out'[1].ev = "user_left")
       => \A k \in Conns, c \in ChannelIds : Leave(k, c) => <<c, k>> \in rooms
    ]_vars

\* C36: a send_message that ends with 'Error sending message' has stored no
\* row.
C36_ErrorMeansNothingStored ==
  [][\A k \in Conns :
       (\E i \in 1..Len(out') :
          out'[i] = Ev(k, "error", NoChannel, NoUser, 0, "Error sending message"))
         => pc[k].op # "send_saved"
    ]_vars

\* The elements of a sequence.
Range(q) == {q[i] : i \in 1..Len(q)}

\* The events named ev among those the browser has just emitted.
Emitted(cl, ev) == SelectSeq(cl.emitted, LAMBDA e : e.ev = ev)

\* C37: a removal the creator confirmed and the server carried out makes the
\* browser emit kick_user_from_channel exactly once.
C37_OneKickPerRemoval ==
  [][\A d \in client.deleting :
       RemoveAnswered(d, TRUE)
         => Len(Emitted(client', "kick_user_from_channel")) = 1
    ]_vars

\* C38: the chat room's message list never holds an id twice.
C38_NoDuplicateIds ==
  \A i, j \in 1..Len(client.messages) :
    i # j => client.messages[i] # client.messages[j]

\* C38 witness: the list holds rows 1 and 2, row 2 having come as
\* new_message, while a history response that holds row 1 only is on its way.
C38_Witness ==
  /\ client.messages = <<1, 2>>
  /\ \E l \in client.loads : l.answered /\ l.rows = <<1>> /\ l.chan = client.channel

====
